---- MODULE Spec2Model ----
(***************************************************************************)
(* macsmc: a typed client for the System Management Controller.           *)
(*                                                                         *)
(* Three specifications share this module.                                 *)
(*   Spec      the bounded iterators generated by iter_impl! (FanIter,     *)
(*             BatteryIter, CpuIter over u8 cursors): the cursor pair,     *)
(*             every iterator method, and the element fetches they issue.  *)
(*   SpecRead  the read pipeline of SMCConnection and the public getters   *)
(*             of Smc layered on it: _smc_call, _smc_read_key,             *)
(*             DataValue::convert, the value parsers, the translation of   *)
(*             internal errors to public ones, the opening and closing of  *)
(*             the channel, and key_data_by_index of the binary's copy.    *)
(*   SpecPure  the pure functions on inputs drawn from bounded sets:       *)
(*             DataValue::convert, the value parsers, the derived keys,    *)
(*             FanSpeed::percentage and the battery time estimates.        *)
(***************************************************************************)
EXTENDS Integers, Sequences, FiniteSets, TLC

(***************************************************************************)
(* Bounds of the model.                                                    *)
(***************************************************************************)
\* largest cardinality an iterator is constructed with
MaxCard == 3
\* small skip distances handed to nth / nth_back are 0..MaxSkip
MaxSkip == 3
\* number of calls of a drain by next() / next_back() that is tracked
MaxCalls == 5

(***************************************************************************)
(* Part 1: iter_impl!                                                      *)
(***************************************************************************)

\* $range = u8 for FanIter, BatteryIter and CpuIter: number of values of u8
RangeSize == 256

VARIABLES
    next,      \* self.next
    max,       \* self.max
    card,      \* the cardinality the iterator was constructed with
    alive,     \* the iterator exists (not consumed by last/count, not unwound)
    op,        \* the iterator method called last
    arg,       \* its argument n (0 when it takes none)
    pnext,     \* self.next before that call
    pmax,      \* self.max before that call
    res,       \* what that call returned
    fetched,   \* the indices that call handed to smc.$get, in order
    fwd,       \* k: exactly k calls since construction, all next(), no fetch failed; -1 otherwise
    bwd,       \* the same for next_back()
    drain,     \* the results of the calls since construction while they are all
               \* next() or next_back(): how many, how many were Some, the items
               \* yielded, whether a fetch failed
    rop,       \* SpecRead: the public operation of Smc called last
    rin,       \* SpecRead: its inputs (keys, output type, what the channel answers)
    rout,      \* SpecRead: its outcome (result, error handed to Error::from, channel calls)
    chan       \* SpecRead: the channel of the client: not opened, open or closed,
               \* and how often IOServiceOpen succeeded and IOServiceClose was called

ivars == <<next, max, card, alive, op, arg, pnext, pmax, res, fetched, fwd, bwd, drain>>
rvars == <<rop, rin, rout, chan>>
vars == <<next, max, card, alive, op, arg, pnext, pmax, res, fetched, fwd, bwd, drain, rop, rin, rout, chan>>

\* Option<Result<Item, Error>> of an iterator step; an item is named by the
\* index it was fetched at
None == [k |-> "None", i |-> -1]
SomeOk(i) == [k |-> "Ok", i |-> i]
SomeErr(i) == [k |-> "Err", i |-> i]
\* the usize returned by size_hint / count
Usize(v) == [k |-> "Usize", i |-> v]
\* arithmetic overflow in a build with overflow checks
Panic == [k |-> "Panic", i |-> -1]

\* the skip distances drawn for nth / nth_back: small ones, and the ones
\* around the width of the cursor type
Skips == (0..MaxSkip) \cup {RangeSize - 1, RangeSize, RangeSize + 1}

\* `x as $range`: the truncating cast from usize
AsRange(x) == x % RangeSize

\* u8::saturating_sub / usize::saturating_sub
saturating_sub(a, n) == IF n > a THEN 0 ELSE a - n

\* usize::saturating_add.  usize is 64 bits wide; the sum saturates at
\* 2^64 - 1, which every cursor value plus every skip distance of Skips
\* stays far below.
saturating_add(a, n) == a + n

\* Ord::max
MaxOf(a, b) == IF a >= b THEN a ELSE b

\* the outcome of an iterator method on the cursors (nx, mx): the new cursors,
\* the value returned and the indices fetched
Step(nx, mx, r, f) == [next |-> nx, max |-> mx, res |-> r, fetched |-> f]

\* Iterator::next with the exhaustion test off by one
iter_next_offbyone(nx, mx, ok) ==
    IF nx > mx THEN Step(nx, mx, None, <<>>)
    ELSE IF ~ok THEN Step(nx, mx, SomeErr(nx), <<nx>>)
    ELSE Step(nx + 1, mx, SomeOk(nx), <<nx>>)

\* Iterator::next.  ok: smc.$get(self.next) returned Ok
iter_next(nx, mx, ok) ==
    IF nx >= mx THEN Step(nx, mx, None, <<>>)
    ELSE IF ~ok THEN Step(nx, mx, SomeErr(nx), <<nx>>)
    ELSE Step(nx + 1, mx, SomeOk(nx), <<nx>>)

\* DoubleEndedIterator::next_back.  ok: smc.$get(self.max) returned Ok
iter_next_back(nx, mx, ok) ==
    IF mx <= nx THEN Step(nx, mx, None, <<>>)
    ELSE IF ~ok THEN Step(nx, mx, SomeErr(mx), <<mx>>)
    ELSE Step(nx, saturating_sub(mx, 1), SomeOk(mx), <<mx>>)

\* Iterator::nth, as a loop over next() that fetches every skipped element
iter_nth_loop(nx, mx, n, ok) ==
    LET t == AsRange(saturating_add(nx, n))
        s == iter_next(t, mx, ok)
    IN  Step(s.next, s.max, s.res,
             [j \in 1..(IF n < mx - nx THEN n ELSE MaxOf(mx - nx, 0)) |-> nx + j - 1] \o s.fetched)

\* Iterator::nth
iter_nth(nx, mx, n, ok) ==
    iter_next(AsRange(saturating_add(nx, n)), mx, ok)

\* DoubleEndedIterator::nth_back
iter_nth_back(nx, mx, n, ok) ==
    iter_next_back(nx, AsRange(saturating_sub(mx, n)), ok)

\* Iterator::last
iter_last(nx, mx, ok) ==
    iter_next(MaxOf(nx, saturating_sub(mx, 1)), mx, ok)

\* `(self.max - self.next) as usize`: u8 subtraction; when it underflows a
\* build with overflow checks panics and a build without them wraps
items_left(nx, mx) ==
    IF mx >= nx THEN {Usize(mx - nx)}
    ELSE {Panic, Usize((mx - nx) % RangeSize)}

\* the next value of a drain counter
Track(c, r) == IF c >= 0 /\ c < MaxCalls /\ r.k # "Err" THEN c + 1 ELSE -1

\* the drain record of a fresh iterator, and the one of an iterator that
\* is not being drained by next() / next_back() alone
NoCalls == [n |-> 0, somes |-> 0, items |-> <<>>, fails |-> FALSE]
Untracked == [n |-> -1, somes |-> 0, items |-> <<>>, fails |-> FALSE]

\* the drain record after a call of method o returned r
DrainStep(d, o, r) ==
    IF o \notin {"next", "next_back"} \/ d.n < 0 \/ d.n >= MaxCalls THEN Untracked
    ELSE [n |-> d.n + 1,
          somes |-> IF r.k \in {"Ok", "Err"} THEN d.somes + 1 ELSE d.somes,
          items |-> IF r.k = "Ok" THEN Append(d.items, r.i) ELSE d.items,
          fails |-> d.fails \/ r.k = "Err"]

IterInit ==
    /\ card \in 0..MaxCard
    /\ next = 0
    /\ max = card
    /\ alive = TRUE
    /\ op = "new"
    /\ arg = 0
    /\ pnext = 0
    /\ pmax = card
    /\ res = None
    /\ fetched = <<>>
    /\ fwd = 0
    /\ bwd = 0
    /\ drain = NoCalls

\* the iterator variables of a call `o(n)` with outcome s
Apply(o, n, s, f, b, a) ==
    /\ next' = s.next
    /\ max' = s.max
    /\ res' = s.res
    /\ fetched' = s.fetched
    /\ op' = o
    /\ arg' = n
    /\ pnext' = next
    /\ pmax' = max
    /\ fwd' = f
    /\ bwd' = b
    /\ drain' = DrainStep(drain, o, s.res)
    /\ alive' = a
    /\ UNCHANGED card

\* $struct::new: `smc.$max()?` returned n
New ==
    /\ \E n \in 0..MaxCard :
        /\ card' = n
        /\ next' = 0
        /\ max' = n
        /\ pnext' = 0
        /\ pmax' = n
    /\ alive' = TRUE
    /\ op' = "new"
    /\ arg' = 0
    /\ res' = None
    /\ fetched' = <<>>
    /\ fwd' = 0
    /\ bwd' = 0
    /\ drain' = NoCalls
    /\ UNCHANGED rvars

NextCall ==
    /\ alive
    /\ \E ok \in BOOLEAN :
        LET s == iter_next(next, max, ok)
        IN  Apply("next", 0, s, Track(fwd, s.res), -1, TRUE)
    /\ UNCHANGED rvars

NextBackCall ==
    /\ alive
    /\ \E ok \in BOOLEAN :
        LET s == iter_next_back(next, max, ok)
        IN  Apply("next_back", 0, s, -1, Track(bwd, s.res), TRUE)
    /\ UNCHANGED rvars

NthCall ==
    /\ alive
    /\ \E n \in Skips, ok \in BOOLEAN :
        Apply("nth", n, iter_nth(next, max, n, ok), -1, -1, TRUE)
    /\ UNCHANGED rvars

NthBackCall ==
    /\ alive
    /\ \E n \in Skips, ok \in BOOLEAN :
        Apply("nth_back", n, iter_nth_back(next, max, n, ok), -1, -1, TRUE)
    /\ UNCHANGED rvars

\* last(mut self) consumes the iterator
LastCall ==
    /\ alive
    /\ \E ok \in BOOLEAN :
        Apply("last", 0, iter_last(next, max, ok), -1, -1, FALSE)
    /\ UNCHANGED rvars

\* size_hint(&self) leaves the cursors alone; a panic unwinds the caller
SizeHintCall ==
    /\ alive
    /\ \E r \in items_left(next, max) :
        Apply("size_hint", 0, Step(next, max, r, <<>>), -1, -1, r # Panic)
    /\ UNCHANGED rvars

\* count(self) consumes the iterator
CountCall ==
    /\ alive
    /\ \E r \in items_left(next, max) :
        Apply("count", 0, Step(next, max, r, <<>>), -1, -1, FALSE)
    /\ UNCHANGED rvars

\* no Smc has been constructed
NotConnected == [state |-> "none", opened |-> 0, closed |-> 0]

ReadIdle ==
    /\ rop = "none"
    /\ rin = <<>>
    /\ rout = <<>>
    /\ chan = NotConnected

Init == IterInit /\ ReadIdle

Next ==
    \/ New
    \/ NextCall
    \/ NextBackCall
    \/ NthCall
    \/ NthBackCall
    \/ LastCall
    \/ SizeHintCall
    \/ CountCall

Spec == Init /\ [][Next]_vars

(***************************************************************************)
(* Part 2: the read pipeline.                                              *)
(*                                                                         *)
(* A u32 key or type tag is modelled by its four big-endian bytes          *)
(* (u32::to_be_bytes), a byte by its value 0..255.  A 64-bit integer is    *)
(* modelled by its eight big-endian bytes, so that widening, narrowing and *)
(* range checks are the ones of the machine integers.                      *)
(***************************************************************************)

\* [0u8; n]
Zeros(n) == [j \in 1..n |-> 0]
\* [b; n]
Fill(n, b) == [j \in 1..n |-> b]

\* SMCBytes([u8; 32])
BufferSize == 32

\* the type tags DataValue::convert matches on
TAG_FLAG == <<102, 108, 97, 103>>
TAG_FLT == <<102, 108, 116, 32>>
TAG_HEX == <<104, 101, 120, 95>>
TAG_CH8 == <<99, 104, 56, 42>>
PFX_FP == <<102, 112>>
PFX_SP == <<115, 112>>
PFX_UI == <<117, 105>>
PFX_SI == <<115, 105>>
SFX_8 == <<56, 32>>
SFX_16 == <<49, 54>>
SFX_32 == <<51, 50>>
SFX_64 == <<54, 52>>
\* smc_key(b"????")
KEY_UNKNOWN == <<63, 63, 63, 63>>

\* InternalError
IErr(e, code, sub, key, tpe) == [e |-> e, code |-> code, sub |-> sub, key |-> key, tpe |-> tpe]
SmcNotFound == IErr("SmcNotFound", 0, 0, <<>>, <<>>)
SmcFailedToOpen(code) == IErr("SmcFailedToOpen", code, 0, <<>>, <<>>)
NotPrivlileged == IErr("NotPrivlileged", 0, 0, <<>>, <<>>)
UnknownSmc(code, sub) == IErr("UnknownSmc", code, sub, <<>>, <<>>)
UnknownKey == IErr("_UnknownKey", 0, 0, <<>>, <<>>)
DataKeyError(tpe) == IErr("_DataKeyError", 0, 0, <<>>, tpe)
DataValueError == IErr("_DataValueError", 0, 0, <<>>, <<>>)
DataError(key, tpe) == IErr("DataError", 0, 0, key, tpe)
\* a panic of an index out of range, which unwinds through every caller
SlicePanic == IErr("panic", 0, 0, <<>>, <<>>)

\* InternalResult<T>
Ok(v) == [ok |-> TRUE, v |-> v]
Err(e) == [ok |-> FALSE, e |-> e]

\* DataValue.  Float(f32) is either the four bytes f32::from_ne_bytes read,
\* or the quotient num/den of a fixed-point or integer conversion, which f32
\* represents exactly; the quotient 0/den is +0.0, the f32 of bytes 0,0,0,0.
DV(v, flag, num, den, bytes) == [v |-> v, flag |-> flag, num |-> num, den |-> den, bytes |-> bytes]
Flag(b) == DV("Flag", b, 0, 0, <<>>)
FloatBits(b4) == DV("Float", FALSE, 0, 0, b4)
FloatRatio(n, d) == IF n = 0 THEN FloatBits(Zeros(4)) ELSE DV("Float", FALSE, n, d, <<>>)
DvInt(w) == DV("Int", FALSE, 0, 0, w)
DvUint(w) == DV("Uint", FALSE, 0, 0, w)
\* Str(String): the characters of the string
Str(bs) == DV("Str", FALSE, 0, 0, bs)
Unknown(bs) == DV("Unknown", FALSE, 0, 0, bs)

\* <$wide>::from(<$narrow>::from_be_bytes(..)) for unsigned / signed $narrow
ZeroExtend(data) == Zeros(8 - Len(data)) \o data
SignExtend(data) == Fill(8 - Len(data), IF data[1] >= 128 THEN 255 ELSE 0) \o data

\* u16::from_be_bytes / i16::from_be_bytes
U16(data) == data[1] * 256 + data[2]
I16(data) == IF data[1] >= 128 THEN U16(data) - 65536 ELSE U16(data)

\* int_tpe! that widens every $narrow as an unsigned one
int_tpe_unsigned(data, width, signed) ==
    IF Len(data) # width THEN Err(DataValueError)
    ELSE IF signed THEN Ok(DvInt(ZeroExtend(data)))
    ELSE Ok(DvUint(ZeroExtend(data)))

\* int_tpe!: `$data.try_into()?` fails unless the slice has the width of $narrow
int_tpe(data, width, signed) ==
    IF Len(data) # width THEN Err(DataValueError)
    ELSE IF signed THEN Ok(DvInt(SignExtend(data)))
    ELSE Ok(DvUint(ZeroExtend(data)))

\* char_to_int that knows the decimal digits only
char_to_int_decimal(c) == IF c >= 48 /\ c <= 57 THEN c - 48 ELSE 0

char_to_int(c) ==
    IF c >= 97 /\ c <= 102 THEN c - 97 + 10
    ELSE IF c >= 48 /\ c <= 57 THEN c - 48
    ELSE 0

decode_fp_float(raw, f) == Ok(FloatRatio(raw, 2 ^ f))

\* the position of the first 0 in data, Len(data) + 1 when there is none
FirstNul(data) ==
    IF \E j \in 1..Len(data) : data[j] = 0
    THEN CHOOSE j \in 1..Len(data) : data[j] = 0 /\ \A h \in 1..(j - 1) : data[h] # 0
    ELSE Len(data) + 1

\* a byte read beyond the end of the allocation it was read from
OutOfBounds == -1

\* CStr::from_ptr(p).to_bytes(): the bytes of the memory at p before its
\* first NUL; a memory without a NUL is read beyond its end
CStr_from_ptr(mem) ==
    IF \E j \in 1..Len(mem) : mem[j] = 0 THEN SubSeq(mem, 1, FirstNul(mem) - 1)
    ELSE Append(mem, OutOfBounds)

\* bs[j], 0 beyond the end (safe_get of Utf8Chunks)
ByteAt(bs, j) == IF j <= Len(bs) THEN bs[j] ELSE 0
\* a UTF-8 continuation byte
Cont(b) == b >= 128 /\ b <= 191
\* the second byte b of a three- or four-byte sequence led by a
Second(a, b) ==
    IF a = 224 THEN b >= 160 /\ b <= 191
    ELSE IF a = 237 THEN b >= 128 /\ b <= 159
    ELSE IF a = 240 THEN b >= 144 /\ b <= 191
    ELSE IF a = 244 THEN b >= 128 /\ b <= 143
    ELSE Cont(b)
\* the width of the sequence a byte leads (UTF8_CHAR_WIDTH), 0 for a byte
\* that leads none
Utf8Width(a) ==
    IF a < 128 THEN 1
    ELSE IF a >= 194 /\ a <= 223 THEN 2
    ELSE IF a >= 224 /\ a <= 239 THEN 3
    ELSE IF a >= 240 /\ a <= 244 THEN 4
    ELSE 0
\* the first chunk of bs: a character (ok) of len bytes, or an invalid
\* sequence of len bytes that becomes one U+FFFD
Utf8Chunk(bs) ==
    LET w == Utf8Width(bs[1])
        full == [ok |-> TRUE, len |-> w]
        bad(n) == [ok |-> FALSE, len |-> n]
    IN  IF w = 1 THEN full
        ELSE IF w = 0 THEN bad(1)
        ELSE IF w = 2 THEN (IF Cont(ByteAt(bs, 2)) THEN full ELSE bad(1))
        ELSE IF ~Second(bs[1], ByteAt(bs, 2)) THEN bad(1)
        ELSE IF ~Cont(ByteAt(bs, 3)) THEN bad(2)
        ELSE IF w = 3 THEN full
        ELSE IF ~Cont(ByteAt(bs, 4)) THEN bad(3)
        ELSE full
\* the code point of a valid sequence
CodePoint(c) ==
    IF Len(c) = 1 THEN c[1]
    ELSE IF Len(c) = 2 THEN (c[1] - 192) * 64 + (c[2] - 128)
    ELSE IF Len(c) = 3 THEN (c[1] - 224) * 4096 + (c[2] - 128) * 64 + (c[3] - 128)
    ELSE (c[1] - 240) * 262144 + (c[2] - 128) * 4096 + (c[3] - 128) * 64 + (c[4] - 128)
REPLACEMENT_CHARACTER == 65533

\* CStr::to_string_lossy().into_owned(): the String as its characters
RECURSIVE to_string_lossy(_)
to_string_lossy(bs) ==
    IF bs = <<>> THEN <<>>
    ELSE IF Utf8Chunk(bs).ok
    THEN <<CodePoint(SubSeq(bs, 1, Utf8Chunk(bs).len))>>
            \o to_string_lossy(SubSeq(bs, Utf8Chunk(bs).len + 1, Len(bs)))
    ELSE <<REPLACEMENT_CHARACTER>> \o to_string_lossy(SubSeq(bs, Utf8Chunk(bs).len + 1, Len(bs)))

\* the "ch8*" arm without its branch for a buffer that has no NUL
convert_ch8_unterminated(data) == CStr_from_ptr(data)

\* the "ch8*" arm of DataValue::convert: the bytes the CStr is made of
convert_ch8(data) ==
    IF \E j \in 1..Len(data) : data[j] = 0 THEN CStr_from_ptr(data)
    ELSE CStr_from_ptr(Append(data, 0))

\* the second match of convert with a failure in place of the fallback
convert_prefix_failing(data, tpe) ==
    LET pfx == SubSeq(tpe, 1, 2)
        sfx == SubSeq(tpe, 3, 4)
        i == char_to_int(tpe[3])
        f == char_to_int(tpe[4])
    IN  IF pfx = PFX_FP /\ i + f = 16
        THEN IF Len(data) # 2 THEN Err(DataValueError) ELSE decode_fp_float(U16(data), f)
        ELSE IF pfx = PFX_SP /\ i + f = 15
        THEN IF Len(data) # 2 THEN Err(DataValueError) ELSE decode_fp_float(I16(data), f)
        ELSE IF pfx = PFX_UI /\ sfx = SFX_8 THEN int_tpe(data, 1, FALSE)
        ELSE IF pfx = PFX_UI /\ sfx = SFX_16 THEN int_tpe(data, 2, FALSE)
        ELSE IF pfx = PFX_UI /\ sfx = SFX_32 THEN int_tpe(data, 4, FALSE)
        ELSE IF pfx = PFX_UI /\ sfx = SFX_64 THEN int_tpe(data, 8, FALSE)
        ELSE IF pfx = PFX_SI /\ sfx = SFX_8 THEN int_tpe(data, 1, TRUE)
        ELSE IF pfx = PFX_SI /\ sfx = SFX_16 THEN int_tpe(data, 2, TRUE)
        ELSE IF pfx = PFX_SI /\ sfx = SFX_32 THEN int_tpe(data, 4, TRUE)
        ELSE IF pfx = PFX_SI /\ sfx = SFX_64 THEN int_tpe(data, 8, TRUE)
        ELSE Err(DataValueError)

\* the first match of DataValue::convert falls through to the second one
convert_prefix(data, tpe) ==
    LET pfx == SubSeq(tpe, 1, 2)
        sfx == SubSeq(tpe, 3, 4)
        i == char_to_int(tpe[3])
        f == char_to_int(tpe[4])
    IN  IF pfx = PFX_FP /\ i + f = 16
        THEN IF Len(data) # 2 THEN Err(DataValueError) ELSE decode_fp_float(U16(data), f)
        ELSE IF pfx = PFX_SP /\ i + f = 15
        THEN IF Len(data) # 2 THEN Err(DataValueError) ELSE decode_fp_float(I16(data), f)
        ELSE IF pfx = PFX_UI /\ sfx = SFX_8 THEN int_tpe(data, 1, FALSE)
        ELSE IF pfx = PFX_UI /\ sfx = SFX_16 THEN int_tpe(data, 2, FALSE)
        ELSE IF pfx = PFX_UI /\ sfx = SFX_32 THEN int_tpe(data, 4, FALSE)
        ELSE IF pfx = PFX_UI /\ sfx = SFX_64 THEN int_tpe(data, 8, FALSE)
        ELSE IF pfx = PFX_SI /\ sfx = SFX_8 THEN int_tpe(data, 1, TRUE)
        ELSE IF pfx = PFX_SI /\ sfx = SFX_16 THEN int_tpe(data, 2, TRUE)
        ELSE IF pfx = PFX_SI /\ sfx = SFX_32 THEN int_tpe(data, 4, TRUE)
        ELSE IF pfx = PFX_SI /\ sfx = SFX_64 THEN int_tpe(data, 8, TRUE)
        ELSE Ok(Unknown(data))

\* DataValue::convert
convert(data, tpe) ==
    IF tpe = TAG_FLAG THEN Ok(Flag(Len(data) # 0 /\ data[1] # 0))
    ELSE IF tpe = TAG_FLT
    THEN IF Len(data) # 4 THEN Err(DataValueError) ELSE Ok(FloatBits(data))
    ELSE IF tpe = TAG_HEX /\ Len(data) \in {1, 2, 4, 8} THEN int_tpe(data, Len(data), FALSE)
    ELSE IF tpe = TAG_CH8 THEN Ok(Str(to_string_lossy(convert_ch8(data))))
    ELSE convert_prefix(data, tpe)

\* a value of the output type t of a read action; x holds it as a DataValue
\* of the narrowed width
Out(t, x) == [t |-> t, x |-> x]

\* u16::try_from(v): v fits iff its upper six bytes are 0
TryU16(w, t, den) ==
    IF SubSeq(w, 1, 6) = Zeros(6)
    THEN Ok(Out(t, FloatRatio(U16(SubSeq(w, 7, 8)), den)))
    ELSE Err(DataValueError)

\* `v as u8` / `v as u32`: the lower bytes of v, whatever the upper ones are
TryUnsigned_truncating(w, t, width) ==
    Ok(Out(t, DvUint(SubSeq(w, 9 - width, 8))))

\* u8::try_from(v) / u32::try_from(v): v fits iff its upper bytes are 0
TryUnsigned(w, t, width) ==
    IF SubSeq(w, 1, 8 - width) = Zeros(8 - width)
    THEN Ok(Out(t, DvUint(SubSeq(w, 9 - width, 8))))
    ELSE Err(DataValueError)

\* i32::try_from(v): v fits iff it is the sign extension of its lower four bytes
TryI32(w, t) ==
    IF SignExtend(SubSeq(w, 5, 8)) = w
    THEN Ok(Out(t, DvInt(SubSeq(w, 5, 8))))
    ELSE Err(DataValueError)

\* a comparison of the bits of the f32 with those of +0.0
FloatNonZero_bits(x) ==
    IF x.den # 0 THEN x.num # 0 ELSE x.bytes # Zeros(4)

\* `value != 0.0` on f32: +0.0 and -0.0 (little-endian bytes) are zero
FloatNonZero(x) ==
    IF x.den # 0 THEN x.num # 0
    ELSE ~(SubSeq(x.bytes, 1, 3) = Zeros(3) /\ x.bytes[4] \in {0, 128})

\* BatteryStatus { charging, ac_present, health_ok } as three 0/1 entries
BatteryStatus(c, a, h) ==
    DV("BatteryStatus", FALSE, 0, 0,
       <<IF c THEN 1 ELSE 0, IF a THEN 1 ELSE 0, IF h THEN 1 ELSE 0>>)

\* BatteryStatus::parse that takes health_ok from bit 0x80
parse_battery_status_high(w) ==
    BatteryStatus(w[8] % 2 = 1, (w[8] \div 2) % 2 = 1, (w[8] \div 128) % 2 = 1)

\* <BatteryStatus as ValueParser>::parse of Uint(v), w the bytes of v:
\* v & 0x01 == 0x01, v & 0x02 == 0x02, v & 0x40 == 0x40
parse_battery_status(w) ==
    BatteryStatus(w[8] % 2 = 1, (w[8] \div 2) % 2 = 1, (w[8] \div 64) % 2 = 1)

\* <R::Out as ValueParser>::parse
ParseAs(t, val) ==
    CASE t = "Celsius" -> IF val.v = "Float" THEN Ok(Out(t, val)) ELSE Err(DataValueError)
      [] t = "Watt" -> IF val.v = "Float" THEN Ok(Out(t, val)) ELSE Err(DataValueError)
      [] t = "Rpm" ->
            IF val.v = "Float" THEN Ok(Out(t, val))
            ELSE IF val.v = "Uint" THEN TryU16(val.bytes, t, 1)
            ELSE Err(DataValueError)
      [] t = "Volt" ->
            IF val.v = "Float" THEN Ok(Out(t, val))
            ELSE IF val.v = "Uint" THEN TryU16(val.bytes, t, 1000)
            ELSE Err(DataValueError)
      [] t = "FanMode" ->
            IF val.v = "Flag" THEN Ok(Out(t, Flag(val.flag)))
            ELSE IF val.v \in {"Int", "Uint"} THEN Ok(Out(t, Flag(val.bytes # Zeros(8))))
            ELSE IF val.v = "Float" THEN Ok(Out(t, Flag(FloatNonZero(val))))
            ELSE Err(DataValueError)
      [] t = "BatteryStatus" ->
            IF val.v = "Uint"
            THEN Ok(Out(t, parse_battery_status(val.bytes)))
            ELSE Err(DataValueError)
      [] t = "MilliAmpereHours" ->
            IF val.v = "Uint" THEN TryUnsigned(val.bytes, t, 4) ELSE Err(DataValueError)
      [] t = "MilliAmpere" ->
            IF val.v = "Int" THEN TryI32(val.bytes, t) ELSE Err(DataValueError)
      [] t = "bool" -> IF val.v = "Flag" THEN Ok(Out(t, val)) ELSE Err(DataValueError)
      [] t = "u8" -> IF val.v = "Uint" THEN TryUnsigned(val.bytes, t, 1) ELSE Err(DataValueError)
      [] t = "u32" -> IF val.v = "Uint" THEN TryUnsigned(val.bytes, t, 4) ELSE Err(DataValueError)
      [] t = "DataValue" -> Ok(Out(t, val))

\* <R::Out as Default>::default
Default(t) ==
    CASE t \in {"Celsius", "Watt", "Rpm", "Volt"} -> Out(t, FloatBits(Zeros(4)))
      [] t = "FanMode" -> Out(t, Flag(FALSE))
      [] t = "BatteryStatus" -> Out(t, BatteryStatus(FALSE, FALSE, FALSE))
      [] t = "MilliAmpereHours" -> Out(t, DvUint(Zeros(4)))
      [] t = "MilliAmpere" -> Out(t, DvInt(Zeros(4)))
      [] t = "bool" -> Out(t, Flag(FALSE))
      [] t = "u8" -> Out(t, DvUint(Zeros(1)))
      [] t = "u32" -> Out(t, DvUint(Zeros(4)))

(***************************************************************************)
(* The channel: what IOConnectCallStructMethod answers to one request.     *)
(***************************************************************************)
RETURN_SUCCESS == 0
RETURN_NOT_PRIVILEGED == -536870207
\* the sub-code (output.result) of a key the controller does not know
RESULT_UNKNOWN_KEY == 132

\* kern_return_t and the SMCKeyData written to `output`
Reply(ret, result, key, tpe, size, bytes) ==
    [ret |-> ret, result |-> result, key |-> key, data_type |-> tpe, data_size |-> size, bytes |-> bytes]

\* a request: SMCReadCommand, input.key, input.data32
Call(cmd, key, index) == [cmd |-> cmd, key |-> key, index |-> index]

\* a function result together with the channel requests it issued
Ran(r, calls) == [r |-> r, calls |-> calls]

smc_call(reply) ==
    IF reply.ret = RETURN_NOT_PRIVILEGED THEN Err(NotPrivlileged)
    ELSE IF reply.ret # RETURN_SUCCESS THEN Err(UnknownSmc(reply.ret, reply.result))
    ELSE IF reply.result = RESULT_UNKNOWN_KEY THEN Err(UnknownKey)
    ELSE Ok(reply)

\* _smc_open: `found` is whether IOServiceGetMatchingService returned a
\* device, `result` what IOServiceOpen returned
smc_open(found, result) ==
    IF ~found THEN Ran(Err(SmcNotFound), <<Call("GetMatchingService", Zeros(4), 0)>>)
    ELSE Ran(IF result # RETURN_SUCCESS THEN Err(SmcFailedToOpen(result)) ELSE Ok("conn"),
             <<Call("GetMatchingService", Zeros(4), 0), Call("Open", Zeros(4), 0)>>)

\* SMCVal
SMCVal(key, size, tpe, bytes) == [key |-> key, data_size |-> size, data_type |-> tpe, bytes |-> bytes]

\* KeyInfo
KeyInfo(key, tpe, size) == [key |-> key, data_type |-> tpe, data_size |-> size]

\* _smc_read_key without the test of data_size
smc_read_key_unchecked(key, b) ==
    LET c1 == smc_call(b.meta)
        c2 == smc_call(b.data)
        q1 == <<Call("KeyInfo", key, 0)>>
        q2 == <<Call("KeyInfo", key, 0), Call("Data", key, 0)>>
    IN  IF ~c1.ok THEN Ran(c1, q1)
        ELSE IF ~c2.ok THEN Ran(c2, q2)
        ELSE Ran(Ok(SMCVal(key, b.meta.data_size, b.meta.data_type, b.data.bytes)), q2)

\* _smc_read_key that issues the Data request whatever the KeyInfo request
\* returned
smc_read_key_eager(key, b) ==
    LET c1 == smc_call(b.meta)
        c2 == smc_call(b.data)
        q2 == <<Call("KeyInfo", key, 0), Call("Data", key, 0)>>
    IN  IF ~c1.ok THEN Ran(c1, q2)
        ELSE IF b.meta.data_size > BufferSize THEN Ran(Err(DataKeyError(b.meta.data_type)), q2)
        ELSE IF ~c2.ok THEN Ran(c2, q2)
        ELSE Ran(Ok(SMCVal(key, b.meta.data_size, b.meta.data_type, b.data.bytes)), q2)

\* b.meta answers the KeyInfo request, b.data the Data request
smc_read_key(key, b) ==
    LET c1 == smc_call(b.meta)
        q1 == <<Call("KeyInfo", key, 0)>>
        q2 == <<Call("KeyInfo", key, 0), Call("Data", key, 0)>>
    IN  IF ~c1.ok THEN Ran(c1, q1)
        ELSE IF b.meta.data_size > BufferSize THEN Ran(Err(DataKeyError(b.meta.data_type)), q1)
        ELSE LET c2 == smc_call(b.data)
             IN  IF ~c2.ok THEN Ran(c2, q2)
                 ELSE Ran(Ok(SMCVal(key, b.meta.data_size, b.meta.data_type, b.data.bytes)), q2)

smc_key_info(key, reply) ==
    LET c == smc_call(reply)
    IN  Ran(IF c.ok THEN Ok(KeyInfo(key, reply.data_type, reply.data_size)) ELSE c,
            <<Call("KeyInfo", key, 0)>>)

smc_key_index_info(index, reply) ==
    LET c == smc_call(reply)
    IN  Ran(IF c.ok THEN Ok(KeyInfo(reply.key, reply.data_type, reply.data_size)) ELSE c,
            <<Call("ByIndex", Zeros(4), index)>>)

(***************************************************************************)
(* SMCConnection                                                           *)
(***************************************************************************)
\* SMCConnection::new
conn_new(found, result) == smc_open(found, result)

\* try_read_value whose re-tagging of a parse failure forgets the key
try_read_value_parsed_unkeyed(key, rk, pv) ==
    IF ~pv.ok
    THEN Ran(Err(IF pv.e.e = "_DataValueError" THEN DataError(KEY_UNKNOWN, rk.r.v.data_type) ELSE pv.e),
             rk.calls)
    ELSE Ran(Ok(pv.v), rk.calls)

\* try_read_value after op.parse(data): its failure is re-tagged with key and type
try_read_value_parsed(key, rk, pv) ==
    IF ~pv.ok
    THEN Ran(Err(IF pv.e.e = "_DataValueError" THEN DataError(key, rk.r.v.data_type) ELSE pv.e), rk.calls)
    ELSE Ran(Ok(pv.v), rk.calls)

\* try_read_value after `DataValue::convert(data, tpe)?`: its failure is
\* returned as it is
try_read_value_converted(t, key, rk, cv) ==
    IF ~cv.ok THEN Ran(Err(cv.e), rk.calls)
    ELSE try_read_value_parsed(key, rk, ParseAs(t, cv.v))

\* &bytes[..n]: the first n bytes, a panic when n is past the end
slice_to(bytes, n) == IF n > Len(bytes) THEN Err(SlicePanic) ELSE Ok(SubSeq(bytes, 1, n))

\* try_read_value after `&result.bytes.0[..result.data_size as usize]`
try_read_value_sliced(t, key, rk, data) ==
    IF ~data.ok THEN Ran(Err(data.e), rk.calls)
    ELSE try_read_value_converted(t, key, rk, convert(data.v, rk.r.v.data_type))

\* try_read_value after _smc_read_key: _DataKeyError becomes DataError
try_read_value_read(t, key, rk) ==
    IF ~rk.r.ok
    THEN Ran(Err(IF rk.r.e.e = "_DataKeyError" THEN DataError(key, rk.r.e.tpe) ELSE rk.r.e), rk.calls)
    ELSE try_read_value_sliced(t, key, rk, slice_to(rk.r.v.bytes, rk.r.v.data_size))

\* try_read_value for a read action with key `key` and output type t
try_read_value(t, key, b) == try_read_value_read(t, key, smc_read_key(key, b))

\* Option<T>
SomeV(v) == [some |-> TRUE, v |-> v]
Absent == [some |-> FALSE]

\* the match of opt_read_value on the result tr of try_read_value
opt_read_value_match(tr) ==
    IF tr.r.ok THEN Ran(Ok(SomeV(tr.r.v)), tr.calls)
    ELSE IF tr.r.e = UnknownKey THEN Ran(Ok(Absent), tr.calls)
    ELSE Ran(tr.r, tr.calls)

\* opt_read_value that hands the unknown-key signal on
opt_read_value_passing(t, key, b) ==
    LET tr == try_read_value(t, key, b)
    IN  IF tr.r.ok THEN Ran(Ok(SomeV(tr.r.v)), tr.calls) ELSE tr

opt_read_value(t, key, b) == opt_read_value_match(try_read_value(t, key, b))

\* `o?.unwrap_or_default()` on the result o of opt_read_value
unwrap_or_default(t, o) ==
    IF ~o.r.ok THEN o
    ELSE Ran(Ok(IF o.r.v.some THEN o.r.v.v ELSE Default(t)), o.calls)

read_value(t, key, b) == unwrap_or_default(t, opt_read_value(t, key, b))

\* result.map_err(|e| match e { _UnknownKey => DataError{key, tpe}, .. })
map_unknown_key(ki, key, tpe) ==
    IF ~ki.r.ok /\ ki.r.e = UnknownKey THEN Ran(Err(DataError(key, tpe)), ki.calls) ELSE ki

\* SMCConnection::key_info that hands the unknown-key signal on
conn_key_info_passing(key, reply) == smc_key_info(key, reply)

\* SMCConnection::key_info
conn_key_info(key, reply) == map_unknown_key(smc_key_info(key, reply), key, KEY_UNKNOWN)

\* SMCConnection::key_info_by_index
conn_key_info_by_index(index, reply) ==
    map_unknown_key(smc_key_index_info(index, reply), KEY_UNKNOWN, KEY_UNKNOWN)

(***************************************************************************)
(* Smc: the public operations.                                             *)
(***************************************************************************)
\* the keys of the read actions the model calls: smc_key(b"....")
NUMBER_OF_KEYS == <<35, 75, 69, 89>>
NUM_FANS == <<70, 78, 117, 109>>
FAN_MODE == <<70, 48, 77, 100>>
FAN_SPEED_ACTUAL == <<70, 48, 65, 99>>
BATTERY_POWERED == <<66, 65, 84, 80>>
BATTERY_INFO == <<66, 83, 73, 110>>
BATTERY_CYCLES == <<66, 48, 67, 84>>
BATTERY_CURRENT_CAPACITY == <<66, 48, 82, 77>>
BATTERY_POWER == <<66, 48, 65, 80>>
BATTERY_AMPERAGE == <<66, 48, 65, 67>>
BATTERY_VOLTAGE == <<66, 48, 65, 86>>
TEMP_CPU_PROXIMITY == <<84, 67, 48, 80>>
TEMP_CPU_DIE == <<84, 67, 48, 70>>
TEMP_CPU_GFX == <<84, 67, 71, 67>>
TEMP_CPU_SYSTEM_AGENT == <<84, 67, 83, 65>>

\* the read actions (read_impl!) the model calls, one for every output
\* type; an indexed action is called for instance 0
ReadActions ==
    { [key |-> NUMBER_OF_KEYS, out |-> "u32"],
      [key |-> NUM_FANS, out |-> "u8"],
      [key |-> FAN_MODE, out |-> "FanMode"],
      [key |-> FAN_SPEED_ACTUAL, out |-> "Rpm"],
      [key |-> BATTERY_POWERED, out |-> "bool"],
      [key |-> BATTERY_INFO, out |-> "BatteryStatus"],
      [key |-> BATTERY_CYCLES, out |-> "u32"],
      [key |-> BATTERY_CURRENT_CAPACITY, out |-> "MilliAmpereHours"],
      [key |-> BATTERY_POWER, out |-> "Watt"],
      [key |-> BATTERY_AMPERAGE, out |-> "MilliAmpere"],
      [key |-> BATTERY_VOLTAGE, out |-> "Volt"],
      [key |-> TEMP_CPU_PROXIMITY, out |-> "Celsius"] }

\* the keys cpu_temperature reads, in the order it reads them
CpuTemperatureKeys ==
    <<TEMP_CPU_PROXIMITY, TEMP_CPU_DIE, TEMP_CPU_GFX, TEMP_CPU_SYSTEM_AGENT>>

\* Error
PubError(e, code, key, tpe) == [e |-> e, code |-> code, key |-> key, tpe |-> tpe]

\* Result<T> of a public operation; Unreachable is a panic, the one of
\* unreachable!() or one that unwinds through the operation
PubOk(v) == [k |-> "Ok", v |-> v]
PubErr(e) == [k |-> "Err", e |-> e]
Unreachable == [k |-> "Panic"]

\* From<InternalError> that reports the sub-code of a transport failure
error_from_subcode(ie) ==
    CASE ie.e \in {"SmcNotFound", "SmcFailedToOpen"} -> PubErr(PubError("SmcNotAvailable", 0, <<>>, <<>>))
      [] ie.e = "NotPrivlileged" -> PubErr(PubError("InsufficientPrivileges", 0, <<>>, <<>>))
      [] ie.e = "UnknownSmc" -> PubErr(PubError("SmcError", ie.sub, <<>>, <<>>))
      [] ie.e = "DataError" -> PubErr(PubError("DataError", 0, ie.key, ie.tpe))
      [] ie.e \in {"_UnknownKey", "_DataValueError", "_DataKeyError", "panic"} -> Unreachable

\* impl From<InternalError> for Error
error_from(ie) ==
    CASE ie.e \in {"SmcNotFound", "SmcFailedToOpen"} -> PubErr(PubError("SmcNotAvailable", 0, <<>>, <<>>))
      [] ie.e = "NotPrivlileged" -> PubErr(PubError("InsufficientPrivileges", 0, <<>>, <<>>))
      [] ie.e = "UnknownSmc" -> PubErr(PubError("SmcError", ie.code, <<>>, <<>>))
      [] ie.e = "DataError" -> PubErr(PubError("DataError", 0, ie.key, ie.tpe))
      [] ie.e \in {"_UnknownKey", "_DataValueError", "_DataKeyError"} -> Unreachable
      [] ie.e = "panic" -> Unreachable

\* the outcome of a public operation: what it returns, the internal errors
\* it handed to Error::from, the channel requests it issued
Done(result, conv, calls) == [res |-> result, conv |-> conv, calls |-> calls]

\* `Ok(r?)` in a function returning Result<T, Error>: an Err goes through
\* Error::from
Try(r) ==
    IF r.r.ok THEN Done(PubOk(r.r.v), <<>>, r.calls)
    ELSE Done(error_from(r.r.e), <<r.r.e>>, r.calls)

\* Smc::connect
Smc_connect(found, result) == Try(conn_new(found, result))

\* an SMCConnection constructed whatever _smc_open returned
chan_connect_unchecked(c, r) ==
    [state |-> "open", opened |-> c.opened + 1, closed |-> c.closed]

\* the channel after Smc::connect returned r: `let conn = _smc_open()?;
\* Ok(Self { conn })` constructs an SMCConnection only when the open succeeded
chan_connect(c, r) ==
    IF r.res.k = "Ok" THEN [state |-> "open", opened |-> c.opened + 1, closed |-> c.closed]
    ELSE c

\* Drop for SMCConnection: _smc_close(self.conn)
chan_drop(c) == [state |-> "closed", opened |-> c.opened, closed |-> c.closed + 1]

\* a single-value getter: Ok(self.inner.read_value(action)?)
Smc_read(t, key, b) == Try(read_value(t, key, b))

\* the `read_value(..)?` lines of a structured getter from field i on; in
\* read_field the value rv of field i has been read
RECURSIVE read_fields(_, _, _, _, _, _)
RECURSIVE read_field(_, _, _, _, _, _, _)
read_field(t, keys, bs, i, acc, calls, rv) ==
    IF ~rv.r.ok THEN Done(error_from(rv.r.e), <<rv.r.e>>, calls \o rv.calls)
    ELSE read_fields(t, keys, bs, i + 1, Append(acc, rv.r.v), calls \o rv.calls)

read_fields(t, keys, bs, i, acc, calls) ==
    IF i > Len(keys) THEN Done(PubOk(acc), <<>>, calls)
    ELSE read_field(t, keys, bs, i, acc, calls, read_value(t, keys[i], bs[i]))

\* Smc::cpu_temperature: CpuTemperatures as <<proximity, die, graphics, system_agent>>
Smc_cpu_temperature(bs) == read_fields("Celsius", CpuTemperatureKeys, bs, 1, <<>>, <<>>)

\* Dbg
Dbg(key, value) == [key |-> key, value |-> value]

\* Dbg { key, value: value.map_err(Error::from) } for the result o of opt_read_value
Smc_check_value(name, o) ==
    IF o.r.ok THEN Done(PubOk(Dbg(name, PubOk(o.r.v))), <<>>, o.calls)
    ELSE IF error_from(o.r.e) = Unreachable THEN Done(Unreachable, <<o.r.e>>, o.calls)
    ELSE Done(PubOk(Dbg(name, error_from(o.r.e))), <<o.r.e>>, o.calls)

\* Smc::check
Smc_check(name, b) == Smc_check_value(name, opt_read_value("DataValue", name, b))

\* Smc::key_info; DbgKeyInfo keeps the bytes of key and type
Smc_key_info(name, reply) == Try(conn_key_info(name, reply))

\* std::str::from_utf8(..).is_ok()
RECURSIVE Utf8Valid(_)
Utf8Valid(bs) ==
    IF bs = <<>> THEN TRUE
    ELSE IF bs[1] < 128 THEN Utf8Valid(Tail(bs))
    ELSE IF bs[1] >= 194 /\ bs[1] <= 223
    THEN Len(bs) >= 2 /\ Cont(bs[2]) /\ Utf8Valid(SubSeq(bs, 3, Len(bs)))
    ELSE IF bs[1] >= 224 /\ bs[1] <= 239
    THEN /\ Len(bs) >= 3 /\ Cont(bs[2]) /\ Cont(bs[3])
         /\ (bs[1] = 224 => bs[2] >= 160)
         /\ (bs[1] = 237 => bs[2] <= 159)
         /\ Utf8Valid(SubSeq(bs, 4, Len(bs)))
    ELSE IF bs[1] >= 240 /\ bs[1] <= 244
    THEN /\ Len(bs) >= 4 /\ Cont(bs[2]) /\ Cont(bs[3]) /\ Cont(bs[4])
         /\ (bs[1] = 240 => bs[2] >= 144)
         /\ (bs[1] = 244 => bs[2] <= 143)
         /\ Utf8Valid(SubSeq(bs, 5, Len(bs)))
    ELSE FALSE

\* the outcome d of a second step, after the requests `calls` of the first
After(calls, d) == Done(d.res, d.conv, calls \o d.calls)

\* the first lines of key_info_by_index / key_data_by_index, for the result
\* ki of inner.key_info_by_index; `rest` is the outcome of the last line
by_index(ki, rest) ==
    IF ~ki.r.ok THEN Done(error_from(ki.r.e), <<ki.r.e>>, ki.calls)
    ELSE IF ~Utf8Valid(ki.r.v.key)
    THEN Done(error_from(DataError(ki.r.v.key, ki.r.v.data_type)),
              <<DataError(ki.r.v.key, ki.r.v.data_type)>>, ki.calls)
    ELSE After(ki.calls, rest)

\* Smc::key_info_by_index
Smc_key_info_by_index(index, ireply, reply) ==
    by_index(conn_key_info_by_index(index, ireply), Smc_key_info(ireply.key, reply))

\* Smc::key_data_by_index
Smc_key_data_by_index(index, ireply, b) ==
    by_index(conn_key_info_by_index(index, ireply), Smc_check(ireply.key, b))

\* the binary's copy of the client (src/src/smc.rs): check returns
\* Option<Dbg>, `opt_read_value(Check(name))?` then value.map(Dbg), for the
\* result o of opt_read_value
bin_check_value(name, o) ==
    IF ~o.r.ok THEN Done(error_from(o.r.e), <<o.r.e>>, o.calls)
    ELSE Done(PubOk(IF o.r.v.some THEN SomeV(Dbg(name, o.r.v.v)) ELSE Absent), <<>>, o.calls)

\* Smc::check of the binary
bin_check(name, b) == bin_check_value(name, opt_read_value("DataValue", name, b))

\* `.map(|d| d.unwrap())` on the result d of check: None panics
bin_unwrap(d) ==
    IF d.res.k # "Ok" THEN d
    ELSE IF d.res.v.some THEN Done(PubOk(d.res.v.v), d.conv, d.calls)
    ELSE Done(Unreachable, d.conv, d.calls)

\* Smc::key_data_by_index of the binary
bin_key_data_by_index(index, ireply, b) ==
    by_index(conn_key_info_by_index(index, ireply), bin_unwrap(bin_check(ireply.key, b)))

(***************************************************************************)
(* What the channel is made to answer.                                     *)
(***************************************************************************)
\* largest key index handed to the by-index operations
MaxIndex == 1

\* how many times the client connects
MaxOpens == 2

\* a return code of IOConnectCallStructMethod that is neither success nor
\* not-privileged (kIOReturnError)
IO_RETURN_ERROR == -536870212

\* type tags: every rule of convert, fixed-point tags with a valid and an
\* invalid digit sum, an unknown width suffix, an unknown tag
Tags ==
    { TAG_FLAG, TAG_FLT, TAG_HEX, TAG_CH8,
      <<102, 112, 56, 56>>, <<102, 112, 55, 56>>,
      <<115, 112, 55, 56>>, <<115, 112, 53, 97>>, <<115, 112, 56, 56>>,
      <<117, 105, 56, 32>>, <<117, 105, 49, 54>>, <<117, 105, 51, 50>>, <<117, 105, 49, 50>>,
      <<115, 105, 56, 32>>, <<115, 105, 49, 54>>, <<115, 105, 54, 52>>,
      <<123, 102, 100, 115>> }

\* data sizes reported by the metadata query
Sizes == {0, 1, 2, 4, 8, BufferSize, BufferSize + 1}

\* output.bytes: a prefix followed by zeros
Buffer(prefix) == prefix \o Zeros(BufferSize - Len(prefix))
Buffers ==
    { Buffer(<<>>), Buffer(<<1>>), Buffer(<<66, 38>>), Buffer(<<0, 0, 128, 63>>),
      Buffer(<<255, 255, 255, 255, 255, 255, 255, 255>>),
      Buffer(<<0, 0, 0, 0, 0, 1, 0, 67>>) }

\* replies that are not a plain success
ReplyUnknownKey == Reply(RETURN_SUCCESS, RESULT_UNKNOWN_KEY, Zeros(4), Zeros(4), 0, Zeros(BufferSize))
ReplyNotPrivileged == Reply(RETURN_NOT_PRIVILEGED, 0, Zeros(4), Zeros(4), 0, Zeros(BufferSize))
ReplyError(sub) == Reply(IO_RETURN_ERROR, sub, Zeros(4), Zeros(4), 0, Zeros(BufferSize))
FailedReplies == {ReplyUnknownKey, ReplyNotPrivileged, ReplyError(0), ReplyError(RESULT_UNKNOWN_KEY)}

\* successful replies to the three requests
MetaReply(tpe, size) == Reply(RETURN_SUCCESS, 0, Zeros(4), tpe, size, Zeros(BufferSize))
DataReply(buf) == Reply(RETURN_SUCCESS, 0, Zeros(4), Zeros(4), 0, buf)
IndexReply(key, tpe, size) == Reply(RETURN_SUCCESS, 0, key, tpe, size, Zeros(BufferSize))

MetaReplies == FailedReplies \cup {MetaReply(t, z) : t \in Tags, z \in Sizes}
DataReplies == FailedReplies \cup {DataReply(buf) : buf \in Buffers}

\* what the channel answers to the two requests of one value read
Behaviours == [meta : MetaReplies, data : DataReplies]

\* the answers drawn for each field of a structured getter
FieldBehaviours ==
    [meta : {ReplyUnknownKey, ReplyNotPrivileged, MetaReply(TAG_FLT, 4), MetaReply(TAG_FLT, 2),
             MetaReply(<<115, 112, 55, 56>>, 2), MetaReply(TAG_CH8, 4)},
     data : {ReplyUnknownKey, DataReply(Buffer(<<66, 38>>))}]

\* the keys the by-index query reports: an ASCII key, a key that is not
\* UTF-8, a key that is UTF-8 but not ASCII
IndexReplies ==
    FailedReplies \cup
    {IndexReply(key, TAG_FLT, 4) :
        key \in {TEMP_CPU_PROXIMITY, <<255, 67, 48, 80>>, <<195, 169, 48, 80>>}}

\* what IOServiceOpen returns
OpenResults == {RETURN_SUCCESS, RETURN_NOT_PRIVILEGED, IO_RETURN_ERROR}

\* the names handed to check / key_info
CheckNames == {TEMP_CPU_PROXIMITY, NUM_FANS}

(***************************************************************************)
(* SpecRead: one public operation at a time on one connection (&mut self). *)
(***************************************************************************)
\* the inputs of the operation called last
In(keys, out, bs, index, ireply) ==
    [keys |-> keys, out |-> out, bs |-> bs, index |-> index, ireply |-> ireply]

ConnectCall ==
    /\ rop = "none"
    /\ chan.state # "open"
    /\ chan.opened < MaxOpens
    /\ \E found \in BOOLEAN, result \in OpenResults :
        /\ rop' = "connect"
        /\ rin' = In(<<>>, "Smc", <<>>, 0, [found |-> found, ret |-> result])
        /\ rout' = Smc_connect(found, result)
        /\ chan' = chan_connect(chan, Smc_connect(found, result))
    /\ UNCHANGED ivars

\* the owner lets go of the Smc: at the end of its scope, or when an error
\* or a panic of the last operation leaves the scope early
DropCall ==
    /\ chan.state = "open"
    /\ IF rop = "none" THEN TRUE ELSE rout.res.k # "Ok"
    /\ chan' = chan_drop(chan)
    /\ UNCHANGED <<ivars, rop, rin, rout>>

ReadCall ==
    /\ rop = "none"
    /\ chan.state = "open"
    /\ \E a \in ReadActions, b \in Behaviours :
        /\ rop' = "read"
        /\ rin' = In(<<a.key>>, a.out, <<b>>, 0, <<>>)
        /\ rout' = Smc_read(a.out, a.key, b)
    /\ UNCHANGED <<ivars, chan>>

CpuTemperatureCall ==
    /\ rop = "none"
    /\ chan.state = "open"
    /\ \E bs \in [1..4 -> FieldBehaviours] :
        /\ rop' = "cpu_temperature"
        /\ rin' = In(CpuTemperatureKeys, "Celsius", bs, 0, <<>>)
        /\ rout' = Smc_cpu_temperature(bs)
    /\ UNCHANGED <<ivars, chan>>

CheckCall ==
    /\ rop = "none"
    /\ chan.state = "open"
    /\ \E name \in CheckNames, b \in Behaviours :
        /\ rop' = "check"
        /\ rin' = In(<<name>>, "DataValue", <<b>>, 0, <<>>)
        /\ rout' = Smc_check(name, b)
    /\ UNCHANGED <<ivars, chan>>

KeyInfoCall ==
    /\ rop = "none"
    /\ chan.state = "open"
    /\ \E name \in CheckNames, m \in MetaReplies :
        /\ rop' = "key_info"
        /\ rin' = In(<<name>>, "KeyInfo", <<[meta |-> m, data |-> m]>>, 0, <<>>)
        /\ rout' = Smc_key_info(name, m)
    /\ UNCHANGED <<ivars, chan>>

KeyInfoByIndexCall ==
    /\ rop = "none"
    /\ chan.state = "open"
    /\ \E index \in 0..MaxIndex, ir \in IndexReplies, m \in MetaReplies :
        /\ rop' = "key_info_by_index"
        /\ rin' = In(<<ir.key>>, "KeyInfo", <<[meta |-> m, data |-> m]>>, index, ir)
        /\ rout' = Smc_key_info_by_index(index, ir, m)
    /\ UNCHANGED <<ivars, chan>>

KeyDataByIndexCall ==
    /\ rop = "none"
    /\ chan.state = "open"
    /\ \E index \in 0..MaxIndex, ir \in IndexReplies, b \in Behaviours :
        /\ rop' = "key_data_by_index"
        /\ rin' = In(<<ir.key>>, "DataValue", <<b>>, index, ir)
        /\ rout' = Smc_key_data_by_index(index, ir, b)
    /\ UNCHANGED <<ivars, chan>>

BinKeyDataByIndexCall ==
    /\ rop = "none"
    /\ chan.state = "open"
    /\ \E index \in 0..MaxIndex, ir \in IndexReplies, b \in Behaviours :
        /\ rop' = "bin_key_data_by_index"
        /\ rin' = In(<<ir.key>>, "DataValue", <<b>>, index, ir)
        /\ rout' = bin_key_data_by_index(index, ir, b)
    /\ UNCHANGED <<ivars, chan>>

\* the caller takes the result; the connection is free for the next call
Return ==
    /\ rop # "none"
    /\ rop' = "none"
    /\ rin' = <<>>
    /\ rout' = <<>>
    /\ UNCHANGED <<ivars, chan>>

InitRead == IterInit /\ card = 0 /\ ReadIdle

NextRead ==
    \/ ConnectCall
    \/ ReadCall
    \/ CpuTemperatureCall
    \/ CheckCall
    \/ KeyInfoCall
    \/ KeyInfoByIndexCall
    \/ KeyDataByIndexCall
    \/ BinKeyDataByIndexCall
    \/ DropCall
    \/ Return

SpecRead == InitRead /\ [][NextRead]_vars

(***************************************************************************)
(* SpecPure: the pure functions, DataValue::convert and the derivation of  *)
(* the key of an indexed sensor, applied to inputs drawn from bounded sets.*)
(***************************************************************************)
TEMP_CPU_CORE == <<84, 67, 48, 67>>

\* a + b on u8: the sum; past 255 a panic (overflow checks on) or the
\* wrapped sum (overflow checks off)
add_u8(a, b) ==
    IF a + b > 255 THEN {[k |-> "Panic"], [k |-> "Ok", v |-> (a + b) % 256]}
    ELSE {[k |-> "Ok", v |-> a + b]}

\* bytes[j] = value; CommandKey(u32::from_be_bytes(bytes)), for the outcome
\* s of computing value
with_byte(key, j, s) ==
    IF s.k = "Panic" THEN s ELSE [k |-> "Ok", v |-> [key EXCEPT ![j] = s.v]]

\* CommandKey::set1 that writes the first byte of the key
set1_first(key, value) == {with_byte(key, 1, s) : s \in add_u8(48, value)}

\* CommandKey::set1: bytes[1] is the second of the four bytes
set1(key, value) == {with_byte(key, 2, s) : s \in add_u8(48, value)}

\* CommandKey::set2
set2(key, value) == {with_byte(key, 3, s) : s \in add_u8(48, value)}

\* the key cpu_core_temperature(core) reads: CpuCoreTemperature(core + 1).key()
cpu_core_key(core) ==
    UNION {IF c.k = "Panic" THEN {c} ELSE set2(TEMP_CPU_CORE, c.v) : c \in add_u8(core, 1)}

\* the keys a digit is set into: templates of the fan, battery and core
\* sensors, and a key without a digit
DerivedKeys == {FAN_SPEED_ACTUAL, BATTERY_CYCLES, TEMP_CPU_CORE, NUM_FANS}

\* u8
Bytes == 0..255

\* type tags handed to convert: those of the read pipeline, the integer
\* widths missing there, fixed-point tags with hexadecimal digits, with a
\* letter that is no digit and with digit sums that match no rule
ConvertTags ==
    Tags \cup
    { <<117, 105, 54, 52>>, <<115, 105, 51, 50>>, <<115, 105, 56, 56>>,
      <<102, 112, 101, 50>>, <<102, 112, 49, 102>>, <<102, 112, 103, 48>>, <<102, 112, 48, 48>>,
      <<115, 112, 102, 48>>, <<115, 112, 48, 102>>, <<115, 112, 65, 53>>,
      <<102, 108, 116, 0>>, <<70, 76, 65, 71>> }

\* byte slices handed to convert: lengths 0 to 32, with and without a NUL,
\* valid and invalid UTF-8, extreme integers
ConvertData ==
    { <<>>, <<0>>, <<1>>, <<255>>, <<128>>,
      <<66, 38>>, <<128, 0>>, <<255, 255>>, <<0, 65>>,
      <<1, 2, 3>>, <<72, 105, 0>>,
      <<0, 0, 128, 63>>, <<255, 255, 255, 254>>, <<72, 105, 0, 33>>, <<240, 159, 146, 150>>,
      <<226, 130, 172, 65, 0>>, <<226, 130>>, <<195, 169>>, <<255, 72, 195>>,
      <<255, 255, 255, 255, 255, 255, 255, 255>>, <<0, 0, 0, 0, 0, 1, 0, 67>>,
      <<128, 0, 0, 0, 0, 0, 0, 1>>, <<1, 2, 3, 4, 5, 6, 7, 8, 9>>,
      Fill(BufferSize, 65), Fill(BufferSize, 255), Zeros(BufferSize),
      Fill(BufferSize - 1, 66) \o <<0>> }

ConvertCall ==
    /\ rop = "none"
    /\ \E data \in ConvertData, tpe \in ConvertTags :
        /\ rop' = "convert"
        /\ rin' = [data |-> data, tpe |-> tpe]
        /\ rout' = convert(data, tpe)
    /\ UNCHANGED <<ivars, chan>>

Set1Call ==
    /\ rop = "none"
    /\ \E key \in DerivedKeys, value \in Bytes :
        /\ rop' = "set1"
        /\ rin' = [key |-> key, value |-> value]
        /\ rout' \in set1(key, value)
    /\ UNCHANGED <<ivars, chan>>

Set2Call ==
    /\ rop = "none"
    /\ \E key \in DerivedKeys, value \in Bytes :
        /\ rop' = "set2"
        /\ rin' = [key |-> key, value |-> value]
        /\ rout' \in set2(key, value)
    /\ UNCHANGED <<ivars, chan>>

CpuCoreKeyCall ==
    /\ rop = "none"
    /\ \E core \in Bytes :
        /\ rop' = "cpu_core_key"
        /\ rin' = [key |-> TEMP_CPU_CORE, value |-> core]
        /\ rout' \in cpu_core_key(core)
    /\ UNCHANGED <<ivars, chan>>

\* the output types of the read actions and DataValue itself
ParseTypes ==
    {"Celsius", "Watt", "Rpm", "Volt", "FanMode", "BatteryStatus",
     "MilliAmpereHours", "MilliAmpere", "bool", "u8", "u32", "DataValue"}

\* the eight big-endian bytes of a 64-bit integer below 2^64 given by its
\* upper and lower four bytes
Wide(hi, lo) == hi \o lo

\* tagged values handed to the parsers: every variant; unsigned values at
\* the edges of 8, 16, 32 and 64 bits and with single status bits; signed
\* values at the edges of 32 bits; both zeros of f32
ParseValues ==
    {Flag(TRUE), Flag(FALSE), Str(<<72, 105>>), Unknown(<<1, 2, 3>>),
     FloatBits(Zeros(4)), FloatBits(<<0, 0, 0, 128>>), FloatBits(<<0, 0, 128, 63>>),
     FloatRatio(1, 4)}
    \cup {DvUint(Wide(Zeros(4), lo)) :
            lo \in {Zeros(4), <<0, 0, 0, 1>>, <<0, 0, 0, 2>>, <<0, 0, 0, 64>>, <<0, 0, 0, 67>>,
                    <<0, 0, 0, 128>>, <<0, 0, 0, 188>>, <<0, 0, 0, 255>>, <<0, 0, 1, 0>>,
                    <<0, 0, 1, 67>>, <<0, 0, 255, 255>>, <<0, 1, 0, 0>>, Fill(4, 255)}}
    \cup {DvUint(Wide(<<0, 0, 0, 1>>, Zeros(4))), DvUint(Wide(<<1, 0, 0, 0>>, <<0, 0, 0, 7>>)),
          DvUint(Fill(8, 255))}
    \cup {DvInt(Wide(Zeros(4), lo)) :
            lo \in {Zeros(4), <<0, 0, 0, 1>>, <<127, 255, 255, 255>>, <<128, 0, 0, 0>>}}
    \cup {DvInt(Wide(Fill(4, 255), lo)) :
            lo \in {Fill(4, 255), <<128, 0, 0, 0>>, <<127, 255, 255, 255>>}}
    \cup {DvInt(Wide(<<128, 0, 0, 0>>, Zeros(4)))}

ParseCall ==
    /\ rop = "none"
    /\ \E t \in ParseTypes, val \in ParseValues :
        /\ rop' = "parse"
        /\ rin' = [t |-> t, val |-> val]
        /\ rout' = ParseAs(t, val)
    /\ UNCHANGED <<ivars, chan>>

\* f32 results of percentage(): a quotient num/den, or the infinity and the
\* NaN of a division by 0.0
Quotient(num, den) == [k |-> "Num", num |-> num, den |-> den]
Infinity == [k |-> "Inf", num |-> 1, den |-> 0]
NaN == [k |-> "NaN", num |-> 0, den |-> 0]

\* FanSpeed::percentage on rpm values that are whole numbers
percentage(actual, min, max_) ==
    IF max_ - min = 0
    THEN IF actual - min > 0 THEN Infinity ELSE NaN
    ELSE Quotient(100 * (IF actual - min > 0 THEN actual - min ELSE 0), max_ - min)

\* rpm values of the three fields of a FanSpeed; 0 is the default of a key
\* the controller does not know
FanRpms == {0, 1200, 2500, 6000}

PercentageCall ==
    /\ rop = "none"
    /\ \E actual \in FanRpms, min \in FanRpms, max_ \in FanRpms :
        /\ rop' = "percentage"
        /\ rin' = [actual |-> actual, min |-> min, max |-> max_]
        /\ rout' = percentage(actual, min, max_)
    /\ UNCHANGED <<ivars, chan>>

\* i32::MIN
I32_MIN == -2147483647 - 1

\* an Option<Duration> of the battery estimates: None, Some(3600 * cap / amp
\* seconds) where cap is the u32 hi * 2^16 + lo, or a panic
NoEstimate == [k |-> "None", hi |-> 0, lo |-> 0, amp |-> 0]
Estimate(hi, lo, amp) == [k |-> "Some", hi |-> hi, lo |-> lo, amp |-> amp]
EstimatePanic == [k |-> "Panic", hi |-> 0, lo |-> 0, amp |-> 0]

\* Duration::from_secs_f64(3600.0 * cap / amp): panics on a negative value
from_secs_f64(hi, lo, amp) ==
    IF amp < 0 /\ (hi # 0 \/ lo # 0) THEN EstimatePanic ELSE Estimate(hi, lo, amp)

\* BatteryDetail::time_remaining, capacities below 2^16.  -amperage on i32
\* overflows for i32::MIN: a panic (overflow checks on) or i32::MIN again
time_remaining(amperage, current_capacity) ==
    IF amperage >= 0 THEN {NoEstimate}
    ELSE IF amperage = I32_MIN
    THEN {EstimatePanic, from_secs_f64(0, current_capacity, I32_MIN)}
    ELSE {from_secs_f64(0, current_capacity, -amperage)}

\* BatteryDetail::time_until_full, capacities below 2^16.  full - current
\* on u32 underflows for current > full: a panic (overflow checks on) or
\* the difference plus 2^32
time_until_full(amperage, current_capacity, full_capacity) ==
    IF amperage <= 0 THEN {NoEstimate}
    ELSE IF current_capacity > full_capacity
    THEN {EstimatePanic,
          from_secs_f64(65535, 65536 + full_capacity - current_capacity, amperage)}
    ELSE {from_secs_f64(0, full_capacity - current_capacity, amperage)}

\* the fields of a BatteryDetail: amperage an i32, capacities u32
Amperages == {I32_MIN, -1500, -1, 0, 1, 2000, 2147483647}
Capacities == {0, 4000, 5000}

BatteryTimeCall ==
    /\ rop = "none"
    /\ \E amperage \in Amperages, current \in Capacities, full \in Capacities :
        /\ rop' = "battery_time"
        /\ rin' = [amperage |-> amperage, current_capacity |-> current, full_capacity |-> full]
        /\ \E r \in time_remaining(amperage, current),
              u \in time_until_full(amperage, current, full) :
            rout' = [time_remaining |-> r, time_until_full |-> u]
    /\ UNCHANGED <<ivars, chan>>

NextPure ==
    \/ ConvertCall
    \/ Set1Call
    \/ Set2Call
    \/ CpuCoreKeyCall
    \/ ParseCall
    \/ PercentageCall
    \/ BatteryTimeCall
    \/ Return

SpecPure == InitRead /\ [][NextPure]_vars

(***************************************************************************)
(* Claims about the iterators, checked under Spec.                         *)
(***************************************************************************)

\* C1: every index an iterator method hands to the element fetch lies in
\* [0, N), N the cardinality the iterator was constructed with.
C1_FetchWithinCardinality ==
    \A j \in 1..Len(fetched) : fetched[j] >= 0 /\ fetched[j] < card

\* C2: on a fresh iterator of cardinality N whose fetches all succeed, the
\* k-th call of next returns the item fetched at index k-1 for k <= N, and
\* None without fetching for every k > N.
C2_ForwardDrain ==
    fwd >= 1 =>
        IF fwd <= card
        THEN res = SomeOk(fwd - 1) /\ fetched = <<fwd - 1>>
        ELSE res = None /\ fetched = <<>>

\* a forward drain of at least two items has ended with None
C2_Drained == card >= 2 /\ fwd = card + 1 /\ op = "next" /\ res = None

\* C3: on a fresh iterator of cardinality N whose fetches all succeed, the
\* k-th call of next_back returns the item at index N-k for k <= N (the
\* forward sequence reversed), and None for every k > N.
C3_BackwardDrain ==
    bwd >= 1 =>
        IF bwd <= card
        THEN res = SomeOk(card - bwd) /\ fetched = <<card - bwd>>
        ELSE res = None /\ fetched = <<>>

\* C4: when the fetch of a forward step fails, next returns Some(Err) for
\* that position and the cursor next has still moved on by one.
C4_FailedStepAdvances ==
    (op = "next" /\ res.k = "Err") => (res = SomeErr(pnext) /\ next = pnext + 1)

\* C5: with a succeeding fetch, nth(n) returns what the last of n+1 calls of
\* next returns: the item at index next+n when next+n < max, None otherwise.
C5_NthIsRepeatedNext ==
    (op = "nth" /\ res.k # "Err") =>
        res = (IF pnext + arg < pmax THEN SomeOk(pnext + arg) ELSE None)

\* C6: nth(n) and nth_back(n) fetch at most one element whatever n is, and
\* size_hint and count fetch nothing.
C6_SkippedNeverFetched ==
    /\ op \in {"nth", "nth_back"} => Len(fetched) <= 1
    /\ op \in {"size_hint", "count"} => fetched = <<>>

\* nth skipped at least two elements that exist and returned the one after them
C6_Skipped ==
    /\ op = "nth" /\ arg >= 2 /\ pnext + arg < pmax
    /\ res = SomeOk(pnext + arg) /\ fetched = <<pnext + arg>>

\* C7: 0 <= next <= max in every reachable state, so that max - next in
\* size_hint and count never underflows.
C7_CursorsOrdered ==
    /\ 0 <= next /\ next <= max
    /\ op \in {"size_hint", "count"} => res # Panic

(***************************************************************************)
(* Claims about the read pipeline, checked under SpecRead.                 *)
(***************************************************************************)

\* the reply is a success whose sub-code names an unknown key
IsUnknownReply(r) == r.ret = RETURN_SUCCESS /\ r.result = RESULT_UNKNOWN_KEY
\* the reply is a success that carries an answer
IsAnswer(r) == r.ret = RETURN_SUCCESS /\ r.result # RESULT_UNKNOWN_KEY
\* during a value read the channel reports the key unknown, on the metadata
\* call or on the data call that follows a metadata answer
ReportsUnknown(b) ==
    \/ IsUnknownReply(b.meta)
    \/ IsAnswer(b.meta) /\ b.meta.data_size <= BufferSize /\ IsUnknownReply(b.data)
\* both calls of a value read are answered and the bytes cannot be decoded
\* under the reported type tag
DecodeFails(b) ==
    /\ IsAnswer(b.meta) /\ b.meta.data_size <= BufferSize /\ IsAnswer(b.data)
    /\ ~convert(SubSeq(b.data.bytes, 1, b.meta.data_size), b.meta.data_type).ok
\* field j of cpu_temperature reads without an error
FieldReads(j) == read_value("Celsius", rin.keys[j], rin.bs[j]).r.ok
\* the public DataError for a key and a type tag
PubDataError(key, tpe) == PubErr(PubError("DataError", 0, key, tpe))

\* C8: when the channel reports a key unknown, on the metadata call or on
\* the data call, a getter returns Ok(default of the output type) and the
\* optional read Ok(None), never an error; in cpu_temperature such a field
\* reads as 0.0, the fields after it are still queried, and the record is
\* returned with the values of the other fields.
C8_UnknownKeyReadsDefault ==
    /\ (rop = "read" /\ ReportsUnknown(rin.bs[1])) =>
            (rout.res = PubOk(Default(rin.out)) /\ rout.conv = <<>>)
    /\ (rop = "check" /\ ReportsUnknown(rin.bs[1])) =>
            (rout.res = PubOk(Dbg(rin.keys[1], PubOk(Absent))) /\ rout.conv = <<>>)
    /\ rop = "cpu_temperature" =>
            \A i \in 1..4 :
                (ReportsUnknown(rin.bs[i]) /\ \A j \in 1..(i - 1) : FieldReads(j)) =>
                    /\ \A j \in (i + 1)..4 :
                            (\A h \in (i + 1)..(j - 1) : FieldReads(h)) =>
                                \E c \in 1..Len(rout.calls) : rout.calls[c].key = rin.keys[j]
                    /\ (\A j \in (i + 1)..4 : FieldReads(j)) =>
                            /\ rout.res.k = "Ok"
                            /\ rout.res.v[i] = Default("Celsius")
                            /\ \A j \in 1..4 :
                                rout.res.v[j] = read_value("Celsius", rin.keys[j], rin.bs[j]).r.v

\* cpu_temperature with the graphics sensor unknown on the data call and a
\* system-agent sensor that has a value
C8_GraphicsAbsent ==
    /\ rop = "cpu_temperature"
    /\ IsAnswer(rin.bs[3].meta) /\ IsUnknownReply(rin.bs[3].data)
    /\ rout.res.k = "Ok"
    /\ rout.res.v[3] = Default("Celsius")
    /\ rout.res.v[4] # Default("Celsius")
    /\ Len(rout.calls) = 8

\* C9: when the bytes of a key cannot be decoded under its reported type
\* tag, every public read returns DataError with that key and that tag, and
\* no untranslated decode error is handed to the public error conversion.
C9_DecodeFailureIsDataError ==
    /\ (rop = "read" /\ DecodeFails(rin.bs[1])) =>
            rout.res = PubDataError(rin.keys[1], rin.bs[1].meta.data_type)
    /\ (rop = "check" /\ DecodeFails(rin.bs[1])) =>
            rout.res = PubOk(Dbg(rin.keys[1], PubDataError(rin.keys[1], rin.bs[1].meta.data_type)))
    /\ (rop = "key_data_by_index" /\ IsAnswer(rin.ireply) /\ Utf8Valid(rin.keys[1])
            /\ DecodeFails(rin.bs[1])) =>
            rout.res = PubOk(Dbg(rin.keys[1], PubDataError(rin.keys[1], rin.bs[1].meta.data_type)))
    /\ rop # "none" =>
            \A j \in 1..Len(rout.conv) : rout.conv[j].e # "_DataValueError"

\* C10: no public operation hands the unknown-key signal to the public error
\* conversion: value reads turn it into the default or None, key_info into
\* DataError{key, "????"}, key_info_by_index into DataError{"????", "????"}.
C10_UnknownKeyNeverConverted ==
    /\ rop # "none" =>
            \A j \in 1..Len(rout.conv) : rout.conv[j].e # "_UnknownKey"
    /\ (rop \in {"read", "check"} /\ ReportsUnknown(rin.bs[1])) => rout.res.k = "Ok"
    /\ (rop = "key_info" /\ IsUnknownReply(rin.bs[1].meta)) =>
            rout.res = PubDataError(rin.keys[1], KEY_UNKNOWN)
    /\ (rop \in {"key_info_by_index", "key_data_by_index"} /\ IsUnknownReply(rin.ireply)) =>
            rout.res = PubDataError(KEY_UNKNOWN, KEY_UNKNOWN)
    /\ (rop = "key_info_by_index" /\ IsAnswer(rin.ireply) /\ Utf8Valid(rin.keys[1])
            /\ IsUnknownReply(rin.bs[1].meta)) =>
            rout.res = PubDataError(rin.keys[1], KEY_UNKNOWN)

\* key_info_by_index found a key by index that the metadata query then
\* reports unknown
C10_IndexedKeyUnknown ==
    /\ rop = "key_info_by_index"
    /\ IsAnswer(rin.ireply) /\ rin.keys[1] = TEMP_CPU_PROXIMITY
    /\ IsUnknownReply(rin.bs[1].meta)
    /\ rout.res = PubDataError(TEMP_CPU_PROXIMITY, KEY_UNKNOWN)
    /\ Len(rout.calls) = 2

\* what convert makes of the bytes of an answered value read
Decoded(b) == convert(SubSeq(b.data.bytes, 1, b.meta.data_size), b.meta.data_type)
\* both calls of a value read are answered, the bytes decode under the
\* reported type tag, and the parser of output type t rejects the value
ParseFails(t, b) ==
    /\ IsAnswer(b.meta) /\ b.meta.data_size <= BufferSize /\ IsAnswer(b.data)
    /\ Decoded(b).ok
    /\ ~ParseAs(t, Decoded(b).v).ok

\* C11: when the decoded value is not accepted by the parser of the read
\* action's output type, the read returns DataError{key, tpe} with the key
\* of the action and the type tag the metadata query returned.
C11_ParseMismatchIsDataError ==
    /\ (rop = "read" /\ ParseFails(rin.out, rin.bs[1])) =>
            rout.res = PubDataError(rin.keys[1], rin.bs[1].meta.data_type)
    /\ (rop = "cpu_temperature" /\ ParseFails("Celsius", rin.bs[1])) =>
            rout.res = PubDataError(TEMP_CPU_PROXIMITY, rin.bs[1].meta.data_type)

\* number_of_fans read a "ui16" value that does not fit u8
C11_FanCountOutOfRange ==
    /\ rop = "read" /\ rin.keys[1] = NUM_FANS /\ rin.out = "u8"
    /\ ParseFails("u8", rin.bs[1])
    /\ Decoded(rin.bs[1]).v.v = "Uint"
    /\ rout.res = PubDataError(NUM_FANS, <<117, 105, 49, 54>>)

\* C12: when the metadata query reports more than 32 bytes, the read fails
\* with DataError{key, reported type} after the metadata request alone; and
\* no read slices the 32-byte buffer past its end.
C12_OversizeIsDataError ==
    /\ (rop = "read" /\ IsAnswer(rin.bs[1].meta) /\ rin.bs[1].meta.data_size > BufferSize) =>
            /\ rout.res = PubDataError(rin.keys[1], rin.bs[1].meta.data_type)
            /\ rout.calls = <<Call("KeyInfo", rin.keys[1], 0)>>
    /\ (rop = "check" /\ IsAnswer(rin.bs[1].meta) /\ rin.bs[1].meta.data_size > BufferSize) =>
            /\ rout.res = PubOk(Dbg(rin.keys[1], PubDataError(rin.keys[1], rin.bs[1].meta.data_type)))
            /\ rout.calls = <<Call("KeyInfo", rin.keys[1], 0)>>
    /\ rop # "none" => \A j \in 1..Len(rout.conv) : rout.conv[j] # SlicePanic

\* number_of_fans was told its value has 33 bytes
C12_ThirtyThreeBytes ==
    /\ rop = "read" /\ rin.keys[1] = NUM_FANS
    /\ rin.bs[1].meta = MetaReply(<<117, 105, 56, 32>>, BufferSize + 1)
    /\ IsAnswer(rin.bs[1].data)
    /\ rout.res = PubDataError(NUM_FANS, <<117, 105, 56, 32>>)
    /\ Len(rout.calls) = 1

\* C13: a response whose sub-code is 132 is taken as the unknown-key signal
\* whatever its return code is: a value read answers with the default value
\* and key_info with DataError{key, "????"}, never with a transport error.
C13_SubCode132IsUnknownKey ==
    /\ (rop = "read" /\ rin.bs[1].meta.result = RESULT_UNKNOWN_KEY) =>
            rout.res = PubOk(Default(rin.out))
    /\ (rop = "key_info" /\ rin.bs[1].meta.result = RESULT_UNKNOWN_KEY) =>
            rout.res = PubDataError(rin.keys[1], KEY_UNKNOWN)

\* the reply carries a return code other than success
Failed(r) == r.ret # RETURN_SUCCESS
\* the public error the claim assigns to a failed reply
TransportError(r) ==
    IF r.ret = RETURN_NOT_PRIVILEGED
    THEN PubErr(PubError("InsufficientPrivileges", 0, <<>>, <<>>))
    ELSE PubErr(PubError("SmcError", r.ret, <<>>, <<>>))
SmcNotAvailable == PubErr(PubError("SmcNotAvailable", 0, <<>>, <<>>))

\* C14: in every operation a failed channel call ends the operation with
\* its public error and is the last request made: service not found or not
\* opened gives SmcNotAvailable, a rejected privileged call
\* InsufficientPrivileges, any other return code c gives SmcError(c).
C14_ChannelFailureKinds ==
    /\ (rop = "connect" /\ ~rin.ireply.found) =>
            rout.res = SmcNotAvailable /\ Len(rout.calls) = 1
    /\ (rop = "connect" /\ rin.ireply.found /\ rin.ireply.ret # RETURN_SUCCESS) =>
            rout.res = SmcNotAvailable /\ Len(rout.calls) = 2
    /\ (rop \in {"read", "key_info", "cpu_temperature"} /\ Failed(rin.bs[1].meta)) =>
            /\ rout.res = TransportError(rin.bs[1].meta)
            /\ rout.calls = <<Call("KeyInfo", rin.keys[1], 0)>>
    /\ (rop = "read" /\ IsAnswer(rin.bs[1].meta) /\ rin.bs[1].meta.data_size <= BufferSize
            /\ Failed(rin.bs[1].data)) =>
            /\ rout.res = TransportError(rin.bs[1].data)
            /\ rout.calls = <<Call("KeyInfo", rin.keys[1], 0), Call("Data", rin.keys[1], 0)>>
    /\ (rop = "check" /\ Failed(rin.bs[1].meta)) =>
            /\ rout.res = PubOk(Dbg(rin.keys[1], TransportError(rin.bs[1].meta)))
            /\ rout.calls = <<Call("KeyInfo", rin.keys[1], 0)>>
    /\ (rop \in {"key_info_by_index", "key_data_by_index"} /\ Failed(rin.ireply)) =>
            /\ rout.res = TransportError(rin.ireply)
            /\ rout.calls = <<Call("ByIndex", Zeros(4), rin.index)>>

\* the data request of a value read failed with a return code that is
\* neither success nor not-privileged
C14_DataRequestFailed ==
    /\ rop = "read" /\ IsAnswer(rin.bs[1].meta) /\ rin.bs[1].data = ReplyError(RESULT_UNKNOWN_KEY)
    /\ rout.res = PubErr(PubError("SmcError", IO_RETURN_ERROR, <<>>, <<>>))
    /\ Len(rout.calls) = 2

(***************************************************************************)
(* Claims about the pure functions, checked under SpecPure.                *)
(***************************************************************************)

\* the digit a tag byte stands for: '0'-'9', 'a'-'f', anything else 0
Digit(c) ==
    IF c \in 48..57 THEN c - 48
    ELSE IF c \in 97..102 THEN c - 87
    ELSE 0
\* the first two and the last two bytes of a tag
Prefix2(tpe) == <<tpe[1], tpe[2]>>
Suffix2(tpe) == <<tpe[3], tpe[4]>>
\* the width suffixes "8 ", "16", "32", "64" and the width in bytes of each
WidthSuffixes == {<<56, 32>>, <<49, 54>>, <<51, 50>>, <<54, 52>>}
WidthOf(sfx) ==
    IF sfx = <<56, 32>> THEN 1 ELSE IF sfx = <<49, 54>> THEN 2 ELSE IF sfx = <<51, 50>> THEN 4 ELSE 8
\* no decoding rule applies to data under the tag tpe
NoRule(data, tpe) ==
    \/ /\ tpe \notin {<<102, 108, 97, 103>>, <<102, 108, 116, 32>>, <<104, 101, 120, 95>>, <<99, 104, 56, 42>>}
       /\ Prefix2(tpe) \notin {<<102, 112>>, <<115, 112>>, <<117, 105>>, <<115, 105>>}
    \/ Prefix2(tpe) = <<102, 112>> /\ Digit(tpe[3]) + Digit(tpe[4]) # 16
    \/ Prefix2(tpe) = <<115, 112>> /\ Digit(tpe[3]) + Digit(tpe[4]) # 15
    \/ Prefix2(tpe) \in {<<117, 105>>, <<115, 105>>} /\ Suffix2(tpe) \notin WidthSuffixes
    \/ tpe = <<104, 101, 120, 95>> /\ Len(data) \notin {1, 2, 4, 8}

\* C15: on input that matches no decoding rule (an unknown tag, a
\* fixed-point tag with a wrong digit sum, an integer tag with an unknown
\* width, "hex_" with a length outside {1,2,4,8}) convert returns
\* Ok(Unknown(bytes)) with the bytes unchanged.
C15_FallbackIsUnknown ==
    (rop = "convert" /\ NoRule(rin.data, rin.tpe)) =>
        /\ rout.ok
        /\ rout.v.v = "Unknown"
        /\ rout.v.bytes = rin.data

\* "hex_" with three bytes came back as the three bytes
C15_HexOfThreeBytes ==
    /\ rop = "convert" /\ rin.tpe = <<104, 101, 120, 95>> /\ rin.data = <<1, 2, 3>>
    /\ rout.ok /\ rout.v.v = "Unknown" /\ rout.v.bytes = <<1, 2, 3>>

\* C16: under "ui8 ".."ui64" and "si8 ".."si64" an input of the width of the
\* tag gives Uint (Int) holding the big-endian value widened to 64 bits, the
\* sign kept for "si"; an input of any other length is a failure.
C16_IntegerWidths ==
    (rop = "convert" /\ Prefix2(rin.tpe) \in {<<117, 105>>, <<115, 105>>}
        /\ Suffix2(rin.tpe) \in WidthSuffixes) =>
        LET w == WidthOf(Suffix2(rin.tpe))
            signed == Prefix2(rin.tpe) = <<115, 105>>
        IN  IF Len(rin.data) # w THEN ~rout.ok
            ELSE /\ rout.ok
                 /\ rout.v.v = (IF signed THEN "Int" ELSE "Uint")
                 /\ Len(rout.v.bytes) = 8
                 /\ \A j \in 1..w : rout.v.bytes[8 - w + j] = rin.data[j]
                 /\ \A j \in 1..(8 - w) :
                        rout.v.bytes[j] = (IF signed /\ rin.data[1] >= 128 THEN 255 ELSE 0)

\* "si8 " of the byte 255 is the 64-bit -1
C16_MinusOne ==
    /\ rop = "convert" /\ rin.tpe = <<115, 105, 56, 32>> /\ rin.data = <<255>>
    /\ rout.ok /\ rout.v.v = "Int" /\ rout.v.bytes = <<255, 255, 255, 255, 255, 255, 255, 255>>

\* C17: under "fpXY" with digit(X) + digit(Y) = 16 ("spXY" with sum 15) a
\* two-byte input gives Float(raw / 2^digit(Y)), raw the big-endian unsigned
\* (signed) 16-bit value; digits are '0'-'9' -> 0..9, 'a'-'f' -> 10..15,
\* anything else 0; and the divisor fits 16 bits.
C17_FixedPoint ==
    /\ (rop = "convert" /\ Prefix2(rin.tpe) \in {<<102, 112>>, <<115, 112>>}) =>
            \A j \in {3, 4} : char_to_int(rin.tpe[j]) = Digit(rin.tpe[j])
    /\ (rop = "convert" /\ Len(rin.data) = 2 /\ Prefix2(rin.tpe) = <<102, 112>>
            /\ Digit(rin.tpe[3]) + Digit(rin.tpe[4]) = 16) =>
            /\ 2 ^ Digit(rin.tpe[4]) < 65536
            /\ rout = Ok(FloatRatio(rin.data[1] * 256 + rin.data[2], 2 ^ Digit(rin.tpe[4])))
    /\ (rop = "convert" /\ Len(rin.data) = 2 /\ Prefix2(rin.tpe) = <<115, 112>>
            /\ Digit(rin.tpe[3]) + Digit(rin.tpe[4]) = 15) =>
            /\ 2 ^ Digit(rin.tpe[4]) < 65536
            /\ rout = Ok(FloatRatio(rin.data[1] * 256 + rin.data[2]
                                        - (IF rin.data[1] >= 128 THEN 65536 ELSE 0),
                                    2 ^ Digit(rin.tpe[4])))

\* "sp0f" of the bytes 0x80 0x00 is -32768 / 2^15
C17_SignedFifteenBits ==
    /\ rop = "convert" /\ rin.tpe = <<115, 112, 48, 102>> /\ rin.data = <<128, 0>>
    /\ rout.ok /\ rout.v.v = "Float" /\ rout.v.num = -32768 /\ rout.v.den = 32768

\* the number of bytes of data before its first NUL, all of them when it
\* has none
UpToNul(data) ==
    CHOOSE n \in 0..Len(data) :
        /\ \A j \in 1..n : data[j] # 0
        /\ n = Len(data) \/ data[n + 1] = 0

C20_DerivationTotal ==
    rop \in {"set1", "set2", "cpu_core_key"} => rout.k = "Ok"

\* the unsigned 64-bit value of the bytes w is below 2^(8 * n)
FitsUnsigned(w, n) == \A j \in 1..(8 - n) : w[j] = 0

\* the signed 64-bit value of the bytes w lies in [-2^31, 2^31 - 1]
FitsI32(w) ==
    \/ (\A j \in 1..4 : w[j] = 0) /\ w[5] < 128
    \/ (\A j \in 1..4 : w[j] = 255) /\ w[5] >= 128

\* the lower n bytes of w
Low(w, n) == [j \in 1..n |-> w[8 - n + j]]

\* C21: narrowing parsers never truncate: Uint(v) parses as u8 iff v <= 255,
\* as u32 or MilliAmpereHours iff v <= 2^32 - 1, as Rpm iff v <= 65535 (result
\* v), as Volt iff v <= 65535 (result v / 1000); Int(v) parses as MilliAmpere
\* iff -2^31 <= v <= 2^31 - 1; a successful parse preserves the value.
C21_NarrowingChecked ==
    rop = "parse" =>
        /\ (rin.val.v = "Uint" /\ rin.t = "u8") =>
              /\ rout.ok <=> FitsUnsigned(rin.val.bytes, 1)
              /\ rout.ok => rout.v = Out("u8", DvUint(Low(rin.val.bytes, 1)))
        /\ (rin.val.v = "Uint" /\ rin.t \in {"u32", "MilliAmpereHours"}) =>
              /\ rout.ok <=> FitsUnsigned(rin.val.bytes, 4)
              /\ rout.ok => rout.v = Out(rin.t, DvUint(Low(rin.val.bytes, 4)))
        /\ (rin.val.v = "Uint" /\ rin.t \in {"Rpm", "Volt"}) =>
              /\ rout.ok <=> FitsUnsigned(rin.val.bytes, 2)
              /\ rout.ok =>
                    rout.v = Out(rin.t, FloatRatio(rin.val.bytes[7] * 256 + rin.val.bytes[8],
                                                   IF rin.t = "Rpm" THEN 1 ELSE 1000))
        /\ (rin.val.v = "Int" /\ rin.t = "MilliAmpere") =>
              /\ rout.ok <=> FitsI32(rin.val.bytes)
              /\ rout.ok => rout.v = Out("MilliAmpere", DvInt(Low(rin.val.bytes, 4)))
        /\ ~rout.ok => rout = Err(DataValueError)

\* Uint(256) does not parse as u8
C21_TooWideForU8 ==
    /\ rop = "parse"
    /\ rin = [t |-> "u8", val |-> DvUint(<<0, 0, 0, 0, 0, 0, 1, 0>>)]
    /\ rout = Err(DataValueError)

\* a tagged value is true / non-zero
IsTrue(val) ==
    CASE val.v = "Flag" -> val.flag
      [] val.v \in {"Int", "Uint"} -> \E j \in 1..8 : val.bytes[j] # 0
      [] val.v = "Float" ->
            IF val.den # 0 THEN val.num # 0
            ELSE \/ \E j \in 1..3 : val.bytes[j] # 0
                 \/ val.bytes[4] \notin {0, 128}

\* C22: each output type accepts the variants listed for it and fails on
\* every other one: Celsius and Watt only Float; bool only Flag; Rpm Float or
\* Uint; MilliAmpere only Int; MilliAmpereHours, u8, u32 and the battery
\* status only Uint; FanMode Flag, Int, Uint and Float, Forced iff the value
\* is true / non-zero; DataValue every variant, unchanged.
C22_AcceptedVariants ==
    rop = "parse" =>
        /\ rin.t \in {"Celsius", "Watt"} =>
              /\ rout.ok <=> rin.val.v = "Float"
              /\ rout.ok => rout.v = Out(rin.t, rin.val)
        /\ rin.t = "bool" =>
              /\ rout.ok <=> rin.val.v = "Flag"
              /\ rout.ok => rout.v = Out(rin.t, rin.val)
        /\ rin.t = "Rpm" =>
              /\ rout.ok => rin.val.v \in {"Float", "Uint"}
              /\ rin.val.v = "Float" => rout = Ok(Out(rin.t, rin.val))
              /\ rin.val = DvUint(Zeros(8)) => rout.ok
        /\ rin.t = "MilliAmpere" =>
              /\ rout.ok => rin.val.v = "Int"
              /\ rin.val = DvInt(Zeros(8)) => rout.ok
        /\ rin.t \in {"MilliAmpereHours", "u8", "u32", "BatteryStatus"} =>
              /\ rout.ok => rin.val.v = "Uint"
              /\ rin.val = DvUint(Zeros(8)) => rout.ok
        /\ rin.t = "FanMode" =>
              /\ rout.ok <=> rin.val.v \in {"Flag", "Int", "Uint", "Float"}
              /\ rout.ok => rout.v = Out(rin.t, Flag(IsTrue(rin.val)))
        /\ rin.t = "DataValue" => rout = Ok(Out(rin.t, rin.val))
        /\ ~rout.ok => rout = Err(DataValueError)

\* Float(-0.0) parses as FanMode::Auto
C22_NegativeZeroIsAuto ==
    /\ rop = "parse"
    /\ rin = [t |-> "FanMode", val |-> FloatBits(<<0, 0, 0, 128>>)]
    /\ rout = Ok(Out("FanMode", Flag(FALSE)))

\* bit m (a power of two below 256) of the lowest byte of w is set
BitOf(w, m) == \E q \in 0..127, r \in 0..(m - 1) : w[8] = 2 * m * q + m + r

\* C23: Uint(v) parsed as battery status has charging iff bit 0x01 of v is
\* set, ac_present iff bit 0x02 is set, health_ok iff bit 0x40 is set, each
\* flag depending on its own bit only.
C23_StatusBits ==
    (rop = "parse" /\ rin.t = "BatteryStatus" /\ rin.val.v = "Uint") =>
        rout = Ok(Out("BatteryStatus",
                      BatteryStatus(BitOf(rin.val.bytes, 1), BitOf(rin.val.bytes, 2),
                                    BitOf(rin.val.bytes, 64))))

\* v = 0x43 gives charging = ac_present = health_ok = true
C23_AllThree ==
    /\ rop = "parse"
    /\ rin = [t |-> "BatteryStatus", val |-> DvUint(<<0, 0, 0, 0, 0, 0, 0, 67>>)]
    /\ rout = Ok(Out("BatteryStatus", BatteryStatus(TRUE, TRUE, TRUE)))

\* C24: percentage() of every FanSpeed is a number between 0 and 100.
C24_PercentageInRange ==
    rop = "percentage" =>
        /\ rout.k = "Num"
        /\ IF rout.den > 0 THEN rout.num >= 0 /\ rout.num <= 100 * rout.den
           ELSE rout.num = 0

\* C29: time_remaining is Some iff amperage < 0, time_until_full is Some iff
\* amperage > 0, and neither -amperage nor full_capacity - current_capacity
\* overflows: the estimates are those of the mathematical values.
C29_TimeEstimates ==
    rop = "battery_time" =>
        /\ rout.time_remaining.k = "Some" <=> rin.amperage < 0
        /\ rout.time_until_full.k = "Some" <=> rin.amperage > 0
        /\ ~(rout.time_remaining.k = "Some" /\ rout.time_until_full.k = "Some")
        /\ rout.time_remaining.k = "Some" =>
              /\ rout.time_remaining.amp > 0
              /\ rout.time_remaining.amp + rin.amperage = 0
        /\ rout.time_until_full.k = "Some" =>
              /\ rout.time_until_full.hi = 0
              /\ rout.time_until_full.lo + rin.current_capacity = rin.full_capacity

\* the two requests of a value read of key
MetaCall(key) == Call("KeyInfo", key, 0)
DataCall(key) == Call("Data", key, 0)

\* the requests of one value read of key under behaviour b: the metadata
\* query, then the data query unless the metadata query failed or reports
\* more than 32 bytes
ReadCalls(key, b) ==
    IF IsAnswer(b.meta) /\ b.meta.data_size <= BufferSize
    THEN <<MetaCall(key), DataCall(key)>>
    ELSE <<MetaCall(key)>>

\* the value read of key under behaviour b returns an error
ReadErrs(t, key, b) == ~read_value(t, key, b).r.ok

\* the operation returned a value the controller supplied: for a getter Ok
\* after a metadata answer, for check Ok(Some(value))
ReadAValue ==
    IF rop = "check"
    THEN rout.res.k = "Ok" /\ rout.res.v.value.k = "Ok" /\ rout.res.v.value.v.some
    ELSE rout.res.k = "Ok" /\ IsAnswer(rin.bs[1].meta)

\* C26: a value read issues the metadata query and then the data query for
\* the same key; a read that succeeds with a value issued exactly these two;
\* after a failed metadata query no data query is issued; the requests of
\* the reads of a structured getter follow each other read by read.
C26_MetadataThenData ==
    /\ rop \in {"read", "check"} =>
          /\ rout.calls = ReadCalls(rin.keys[1], rin.bs[1])
          /\ ReadAValue => rout.calls = <<MetaCall(rin.keys[1]), DataCall(rin.keys[1])>>
          /\ ~IsAnswer(rin.bs[1].meta) =>
                \A j \in 1..Len(rout.calls) : rout.calls[j].cmd # "Data"
    /\ rop = "cpu_temperature" =>
          \E n \in 1..4 :
              /\ \A j \in 1..(n - 1) : ~ReadErrs("Celsius", rin.keys[j], rin.bs[j])
              /\ n < 4 => ReadErrs("Celsius", rin.keys[n], rin.bs[n])
              /\ \E cut \in [1..(n + 1) -> 0..8] :
                    /\ cut[1] = 0 /\ cut[n + 1] = Len(rout.calls)
                    /\ \A j \in 1..n :
                          /\ cut[j] <= cut[j + 1]
                          /\ SubSeq(rout.calls, cut[j] + 1, cut[j + 1])
                                = ReadCalls(rin.keys[j], rin.bs[j])

\* a read whose metadata query is rejected issues that one request
C26_MetadataRejected ==
    /\ rop = "read"
    /\ rin.bs[1].meta = ReplyNotPrivileged
    /\ rout.calls = <<MetaCall(rin.keys[1])>>

\* C30: in the binary's client key_data_by_index never unwraps an absent
\* value: when the lookup by index succeeded and the value read of the key
\* returned without an error, the result is the value read.
C30_NeverUnwrapsNone ==
    (rop = "bin_key_data_by_index" /\ IsAnswer(rin.ireply) /\ Utf8Valid(rin.keys[1])
        /\ rout.conv = <<>>) =>
        rout.res.k = "Ok"

\* the operations of SpecRead that issue requests on an open channel
ChannelOps ==
    {"read", "cpu_temperature", "check", "key_info", "key_info_by_index",
     "key_data_by_index", "bin_key_data_by_index"}

C27_MixedDrainCoversRange ==
    (drain.n > 0 /\ ~drain.fails /\ op \in {"next", "next_back"} /\ res = None) =>
        /\ Len(drain.items) = card
        /\ \A i \in 0..(card - 1) :
              Cardinality({j \in 1..Len(drain.items) : drain.items[j] = i}) = 1

\* C28: a consumer that keeps calling next or next_back receives at most N
\* Some results, whatever the fetches return, and None after them.
C28_DrainTerminates ==
    drain.n > 0 => drain.somes <= card

====
